---- MODULE Spec2Model ----
(***************************************************************************)
(* CNN1.py: a LeNet-5 style MNIST classifier trained with tf.keras.        *)
(*                                                                         *)
(* Four specifications over one set of variables:                          *)
(*   Spec      main(): load, build, fit (with EarlyStopping and History),  *)
(*             plot_metrics, then the persistence statements               *)
(*   SpecNorm  normalize_img applied to one (image, label) sample          *)
(*   SpecBatch the two tf.data pipelines of load_datasets, element by      *)
(*             element, as the sequence of batches one pass delivers       *)
(*   SpecPipe  one training epoch over the train pipeline with the         *)
(*             parallel map, the prefetch buffer and the training steps    *)
(*             as concurrent processes                                     *)
(* Each specification leaves the variables of the others at their idle     *)
(* values.                                                                 *)
(***************************************************************************)
EXTENDS Integers, Sequences, FiniteSets

VARIABLES
    \* ---- main() ----
    pc,             \* statement main() is at
    framework,      \* which Keras generation runs the callbacks
    sched,          \* the run's validation-loss schedule (environment)
    epoch,          \* epochs completed by fit
    weights,        \* model parameters, named by the epoch that produced them
    stop_training,  \* model.stop_training
    es,             \* the EarlyStopping callback's fields
    history,        \* History.history: metric name -> list of per-epoch values
    files,          \* model files written to the working directory
    error,          \* the exception that ended main(), or "none"
    \* ---- normalize_img ----
    n_pc,           \* "call" before the call, "done" after it returned
    n_image,        \* the argument image: [shape, runs]
    n_label,        \* the argument label
    n_round,        \* the rounding of the call's reduce_mean
    n_out,          \* the returned pair: [shape, runs, label, err]
    \* ---- load_datasets: one pass over a pipeline ----
    b_pc,           \* "iterate" before the pass, "done" after it
    b_kind,         \* "train" or "test"
    b_n,            \* number of samples of the split
    b_order,        \* the order in which the map handed out its results
    b_draws,        \* the shuffle's random choices
    b_batches,      \* the batches the pass delivered, in order
    \* ---- one training epoch over ds_train, as concurrent processes ----
    p_n,            \* number of samples of the train split
    p_draws,        \* the shuffle's random choices
    p_next,         \* samples the parallel map has taken from the source
    p_inflight,     \* the parallel map's invocations, in input order
    p_cache,        \* the elements the cache has recorded, in order
    p_shuf,         \* the shuffle buffer
    p_step,         \* elements the shuffle has emitted
    p_pull,         \* the prefetch thread: "wait" for room, "pull", "end"
    p_batch,        \* the batch the prefetch thread is pulling
    p_prefetch,     \* the prefetch buffer: batches ready for the trainer
    p_updating,     \* numbers of the batches whose gradient update is running
    p_consumed,     \* the batches the training loop has taken, in order
    p_applied       \* gradient updates completed

mainVars == <<pc, framework, sched, epoch, weights, stop_training, es, history,
              files, error>>
normVars == <<n_pc, n_image, n_label, n_round, n_out>>
batchVars == <<b_pc, b_kind, b_n, b_order, b_draws, b_batches>>
pipeVars == <<p_n, p_draws, p_next, p_inflight, p_cache, p_shuf, p_step,
              p_pull, p_batch, p_prefetch, p_updating, p_consumed, p_applied>>

vars == <<mainVars, normVars, batchVars, pipeVars>>

(***************************************************************************)
(* Program constants                                                       *)
(***************************************************************************)
MAX_EPOCHS == 50
PATIENCE == 5
NUM_CLASSES == 10
INPUT_SHAPE == <<28, 28, 1>>
\* the shape of an image of tfds 'mnist' (line 46)
MNIST_SHAPE == <<28, 28, 1>>
\* "/ 255.0" (line 37)
PixelMax == 255
\* "1e-6" (line 40), as its reciprocal
EpsInverse == 1000000
BATCH_SIZE == 128
\* "shuffle(1000)" (line 56)
SHUFFLE_BUFFER == 1000

(***************************************************************************)
(* Bounds of the model                                                     *)
(***************************************************************************)
\* longest distance, in epochs, between two improvements of a schedule
MaxGap == 6
\* validation loss (in model units) a schedule starts from
StartLoss == 60
\* an input image is a background intensity with 0, 1 or MaxInk pixels of
\* another intensity: at most MaxContrast levels away from the background,
\* or an end of the range
MaxContrast == 1
MaxInk == 100
\* the mean that reduce_mean returns is off by up to MaxRound float32
\* spacings
MaxRound == 100
\* thousandths by which a measured mean or variance may miss its target
MilliTol == 20
\* largest split a pass of a pipeline is taken over
MaxN == 260
\* the shuffle's random draws of the first StreamLen emissions are free, as
\* far as a buffer of StreamLen + 1 elements tells them apart; later
\* emissions repeat them
StreamLen == 3
\* the map's calls on the first MaxLate samples may run long: the results
\* of up to MaxDelay later calls leave before theirs
MaxLate == 1
MaxDelay == 1
\* parallel calls of the map and depth of the prefetch buffer that
\* tf.data.AUTOTUNE may settle on
MapWorkers == 2
PrefetchDepth == 2

(***************************************************************************)
(* Floating-point losses: a finite number, +inf or NaN.  Comparisons with  *)
(* NaN are false, as numpy's are.                                          *)
(***************************************************************************)
Num(v) == [k |-> "num", v |-> v]
Inf == [k |-> "inf", v |-> 0]
NaN == [k |-> "nan", v |-> 0]

\* np.less(a, b)
NpLess(a, b) ==
    /\ a.k # "nan"
    /\ b.k # "nan"
    /\ \/ a.k = "num" /\ b.k = "inf"
       \/ a.k = "num" /\ b.k = "num" /\ a.v < b.v

(***************************************************************************)
(* normalize_img (lines 35-41).                                            *)
(*                                                                         *)
(* An image is [shape, runs]: its static shape and its pixels in flattened *)
(* order as runs [v, n] of n equal values v.  float32 values are carried   *)
(* in fixed point: the scaled image, its mean and its standard deviation   *)
(* in units of 1e-9 (the epsilon of line 40 is 1000 units), the            *)
(* standardized image in thousandths.  Sums, squares and the variance      *)
(* (units of 1e-18) exceed 32 bits and are wide numbers: sequences of      *)
(* digits to the base 2^15, least significant digit first.                 *)
(*                                                                         *)
(* float32 rounding: the mean that reduce_mean returns differs from the    *)
(* exact mean by the rounding errors of its additions, which depend on the *)
(* order the kernel adds in.  The error is an input of the model (round):  *)
(* a multiple of the float32 spacing at the mean, and zero when every      *)
(* partial sum is a small integer (all pixels 0 or 255).  The roundings of *)
(* the other operations are far below the unit of the result and are not   *)
(* carried.  A division by zero yields NaN or inf, as in float32.          *)
(***************************************************************************)
Scale == 1000 * EpsInverse
EPS == Scale \div EpsInverse
Milli == EpsInverse \div 1000
\* base of the wide numbers
BaseBits == 15
Base == 2 ^ BaseBits
\* a float32 has 24 significant bits
SignificandBits == 24

Abs(a) == IF a < 0 THEN -a ELSE a
Max(a, b) == IF a >= b THEN a ELSE b
Min(a, b) == IF a <= b THEN a ELSE b

RECURSIVE Wide(_)
Wide(n) == IF n < Base THEN <<n>> ELSE <<n % Base>> \o Wide(n \div Base)

Digit(a, i) == IF i <= Len(a) THEN a[i] ELSE 0

RECURSIVE WAddFrom(_, _, _, _)
WAddFrom(a, b, i, carry) ==
    IF i > Len(a) /\ i > Len(b) THEN (IF carry = 0 THEN <<>> ELSE <<carry>>)
    ELSE LET s == Digit(a, i) + Digit(b, i) + carry
         IN  <<s % Base>> \o WAddFrom(a, b, i + 1, s \div Base)

WAdd(a, b) == WAddFrom(a, b, 1, 0)

\* a times m, for 0 <= m < Base
RECURSIVE WScaleFrom(_, _, _, _)
WScaleFrom(a, m, i, carry) ==
    IF i > Len(a) THEN (IF carry = 0 THEN <<>> ELSE Wide(carry))
    ELSE LET s == a[i] * m + carry
         IN  <<s % Base>> \o WScaleFrom(a, m, i + 1, s \div Base)

WScale(a, m) == WScaleFrom(a, m, 1, 0)

RECURSIVE WMulFrom(_, _, _)
WMulFrom(a, b, i) ==
    IF i > Len(b) THEN <<0>>
    ELSE WAdd(WScale(a, b[i]), <<0>> \o WMulFrom(a, b, i + 1))

WMul(a, b) == WMulFrom(a, b, 1)

\* a divided by m, for 0 < m <= Base: quotient digits i.. and remainder
RECURSIVE WDivFrom(_, _, _)
WDivFrom(a, m, i) ==
    IF i > Len(a) THEN [q |-> <<>>, r |-> 0]
    ELSE LET h == WDivFrom(a, m, i + 1)
             cur == h.r * Base + a[i]
         IN  [q |-> <<cur \div m>> \o h.q, r |-> cur % m]

WDiv(a, m) == WDivFrom(a, m, 1).q

RECURSIVE WCompareFrom(_, _, _)
WCompareFrom(a, b, i) ==
    IF i = 0 THEN 0
    ELSE IF Digit(a, i) < Digit(b, i) THEN -1
    ELSE IF Digit(a, i) > Digit(b, i) THEN 1
    ELSE WCompareFrom(a, b, i - 1)

WLeq(a, b) == WCompareFrom(a, b, Max(Len(a), Len(b))) <= 0

\* the value of a wide number that fits 31 bits
RECURSIVE WValue(_)
WValue(a) == IF a = <<>> THEN 0 ELSE Head(a) + Base * WValue(Tail(a))

RECURSIVE Product(_)
Product(shape) ==
    IF shape = <<>> THEN 1 ELSE Head(shape) * Product(Tail(shape))

RECURSIVE Count(_)
Count(runs) == IF runs = <<>> THEN 0 ELSE Head(runs).n + Count(Tail(runs))

\* the sum of the pixels of runs of wide values
RECURSIVE WeightedSum(_)
WeightedSum(runs) ==
    IF runs = <<>> THEN <<0>>
    ELSE WAdd(WScale(Head(runs).v, Head(runs).n), WeightedSum(Tail(runs)))

MapRuns(runs, F(_)) == [i \in DOMAIN runs |-> [v |-> F(runs[i].v), n |-> runs[i].n]]

\* line 37: tf.cast(image, tf.float32) / 255.0
ToUnit(p) == WValue(WDiv(WScale(Wide(Scale), p), PixelMax))

\* tf.reduce_mean over every pixel (of wide values), computed exactly
ReduceMean(runs) == WDiv(WeightedSum(runs), Count(runs))

\* a divided by 2^bits
RECURSIVE WHalve(_, _)
WHalve(a, bits) ==
    IF bits <= BaseBits THEN WDiv(a, 2 ^ bits)
    ELSE WHalve(WDiv(a, Base), bits - BaseBits)

\* the binade of v, 0 <= v <= 1: the h with 2^-(h+1) <= v < 2^-h (0 for 0
\* and for 1)
RECURSIVE Binade(_)
Binade(v) == IF v = 0 \/ 2 * v >= Scale THEN 0 ELSE 1 + Binade(2 * v)

\* k spacings of the float32 values at v, 0 <= k < Base / 2: the values of
\* binade h are 2^-(SignificandBits + h) apart; to the nearest unit
Ulp(v, k) ==
    (WValue(WHalve(WScale(Wide(Scale), 2 * k), SignificandBits + Binade(v))) + 1)
        \div 2

\* every partial sum of the pixels is an integer below 2^24: no addition rounds
ExactSums(runs) == \A i \in DOMAIN runs : runs[i].v \in {0, Scale}

\* the pixels other than 0: adding a 0 does not round
RECURSIVE NonZero(_)
NonZero(runs) ==
    IF runs = <<>> THEN 0
    ELSE (IF Head(runs).v = 0 THEN 0 ELSE Head(runs).n) + NonZero(Tail(runs))

\* the rounding errors of the mean, in float32 spacings at the mean: none
\* when no addition rounds, else at most one per addition of two non-zero
\* values, whatever the order of the additions
Roundings(runs) ==
    IF ExactSums(runs) THEN {0}
    ELSE LET m == Min(MaxRound, NonZero(runs) - 1) IN (-m)..m

\* the mean as the float32 kernel returns it: the exact mean, off by a whole
\* number of float32 spacings, the accumulated rounding of the additions
RoundedMean(runs, round) ==
    LET mean == WValue(ReduceMean(MapRuns(runs, Wide)))
    IN  IF round >= 0 THEN mean + Ulp(mean, round)
        ELSE mean - Ulp(mean, -round)

\* line 38: tf.nn.moments(image, axes=[0, 1, 2]) of a rank-3 image:
\* mean = reduce_mean(x), variance = reduce_mean(squared_difference(x, mean))
Moments(runs, round) ==
    LET mean == RoundedMean(runs, round)
        SqDiff(v) == WMul(Wide(Abs(v - mean)), Wide(Abs(v - mean)))
    IN  [mean |-> mean, var |-> ReduceMean(MapRuns(runs, SqDiff))]

\* the largest r in lo..hi with r * r <= v
RECURSIVE SqrtBetween(_, _, _)
SqrtBetween(v, lo, hi) ==
    IF lo >= hi THEN lo
    ELSE LET mid == (lo + hi + 1) \div 2
         IN  IF WLeq(WMul(Wide(mid), Wide(mid)), v)
             THEN SqrtBetween(v, mid, hi)
             ELSE SqrtBetween(v, lo, mid - 1)

\* line 39: tf.sqrt(var), from units of 1e-18 to units of 1e-9
Sqrt(v) == SqrtBetween(v, 0, Scale)

\* line 40: image - mean
Center(x, mean) == x - mean

\* a slip: no epsilon in the divisor
Divisor_NoEpsilon(std) == std

\* a slip: an epsilon of 1e-3
Divisor_LargeEpsilon(std) == std + 1000 * EPS

\* line 40: std + 1e-6
Divisor(std) == std + EPS

\* the largest f in lo..hi with f * b <= r * m + b / 2
RECURSIVE FractionBetween(_, _, _, _, _)
FractionBetween(r, m, b, lo, hi) ==
    IF lo >= hi THEN lo
    ELSE LET mid == (lo + hi + 1) \div 2
         IN  IF WLeq(WScale(Wide(b), mid), WAdd(WScale(Wide(r), m), Wide(b \div 2)))
             THEN FractionBetween(r, m, b, mid, hi)
             ELSE FractionBetween(r, m, b, lo, mid - 1)

\* a * m / b rounded to the nearest integer, for a >= 0, b > 0, m < Base
Quotient(a, m, b) == (a \div b) * m + FractionBetween(a % b, m, b, 0, m)

\* line 40: the float32 division, its quotient in thousandths
FDiv(a, b) ==
    IF b = 0 THEN (IF a = 0 THEN NaN ELSE Inf)
    ELSE Num((IF a < 0 THEN -1 ELSE 1) * Quotient(Abs(a), Milli, b))

\* the axes of a reduction exist in the shape
AxesDefined(shape, axes) == \A a \in axes : a < Len(shape)

RECURSIVE DropAxes(_, _, _)
DropAxes(shape, axes, i) ==
    IF shape = <<>> THEN <<>>
    ELSE IF i \in axes THEN DropAxes(Tail(shape), axes, i + 1)
         ELSE <<Head(shape)>> \o DropAxes(Tail(shape), axes, i + 1)

\* the shape of a reduction over axes (keepdims=False)
ReduceShape(shape, axes) == DropAxes(shape, axes, 0)

\* the shape of "image - mean" and of the quotient: mean and std are
\* broadcast against the image (a scalar after reducing a rank-3 image)
BroadcastShape(shape, other) == IF Len(other) <= Len(shape) THEN shape ELSE other

\* line 41: tf.expand_dims(image, -1)
ExpandDimsLast(shape) == Append(shape, 1)

\* a slip: the 1 is written one position too far
OneHot_Shifted(label, depth) ==
    [i \in 1..depth |-> IF i - 2 = label THEN 1 ELSE 0]

\* line 41: tf.one_hot(label, NUM_CLASSES); position i of the sequence is
\* index i - 1 of the tensor
OneHot(label, depth) ==
    [i \in 1..depth |-> IF i - 1 = label THEN 1 ELSE 0]

MomentAxes == {0, 1, 2}

\* normalize_img(image, label), with the rounding of its reduce_mean
normalize_img(image, label, round) ==
    IF ~AxesDefined(image.shape, MomentAxes)
    THEN [shape |-> <<>>, runs |-> <<>>, label |-> <<>>, err |-> "InvalidArgument"]
    ELSE
    LET x == MapRuns(image.runs, ToUnit)
        mom == Moments(x, round)
        std == Sqrt(mom.var)
        Standardize(v) == FDiv(Center(v, mom.mean), Divisor(std))
        shape == BroadcastShape(image.shape,
                                ReduceShape(image.shape, MomentAxes))
    IN  [shape |-> ExpandDimsLast(shape),
         runs |-> MapRuns(x, Standardize),
         label |-> OneHot(label, NUM_CLASSES),
         err |-> "none"]

\* the samples normalize_img is applied to: MNIST-shaped images of a
\* background intensity a with k pixels of intensity o, and a label
Backgrounds == {0, 37, 200, PixelMax}

MkImage(a, o, k) ==
    LET n == Product(MNIST_SHAPE)
    IN  [shape |-> MNIST_SHAPE,
         runs |-> IF k = 0 \/ o = a THEN <<[v |-> a, n |-> n]>>
                  ELSE <<[v |-> a, n |-> n - k], [v |-> o, n |-> k]>>]

\* the intensities of the other pixels: close to the background, or an end
\* of the range
Inks(a) ==
    {o \in 0..PixelMax : o - a <= MaxContrast /\ a - o <= MaxContrast}
        \cup {0, PixelMax}

InputImages ==
    UNION {{MkImage(a, o, k) : o \in Inks(a), k \in {0, 1, MaxInk}} :
               a \in Backgrounds}

Labels == 0..(NUM_CLASSES - 1)

\* the samples: every image under one label and one image under every
\* label (lines 37-40 do not read the label, line 41 reads nothing else)
Samples ==
    (InputImages \X {0}) \cup ({MkImage(0, PixelMax, MaxInk)} \X Labels)

NoImage == [shape |-> <<>>, runs |-> <<>>]
NoOutput == [shape |-> <<>>, runs |-> <<>>, label |-> <<>>, err |-> "none"]

NormIdle ==
    /\ n_pc = "idle"
    /\ n_image = NoImage
    /\ n_label = 0
    /\ n_round = 0
    /\ n_out = NoOutput

(***************************************************************************)
(* load_datasets (lines 44-62): the tf.data pipelines.  A dataset is the   *)
(* sequence of elements one pass delivers; an element is a sample of the   *)
(* split, [id, normalized].                                                *)
(*                                                                         *)
(* tfds.load(..., shuffle_files=True) (line 49) without a shuffle seed     *)
(* marks the datasets non-deterministic, and a map with num_parallel_calls *)
(* and no deterministic argument follows that option: it hands out the     *)
(* result of any call that has finished, not of the oldest one.  The order *)
(* in which a map hands out its results is an input of the pipelines.      *)
(* The shuffle draws a random number at every emission; the numbers it    *)
(* draws are an input too: a sequence of draws, used in turn and over      *)
(* again.                                                                  *)
(***************************************************************************)

\* lines 46-52: the split as tfds.load delivers it
Source(n) == [i \in 1..n |-> [id |-> i, normalized |-> FALSE]]

\* normalize_img applied to one element
MapElem(e) == [e EXCEPT !.normalized = TRUE]

\* the hand-out order of a map with one call at a time
InOrder(n) == [i \in 1..n |-> i]

\* a hand-out order in which the result of call j leaves after the results
\* of the d calls started after it
Late(n, j, d) ==
    [i \in 1..n |-> IF i < j \/ i > j + d THEN i
                    ELSE IF i = j + d THEN j
                    ELSE i + 1]

\* the orders in which a map running w calls at a time can hand out n
\* results: result number i is that of one of the first i - 1 + w calls
IsHandOutOrder(order, n, w) ==
    /\ Len(order) = n
    /\ {order[i] : i \in 1..n} = 1..n
    /\ \A i \in 1..n : order[i] <= i - 1 + w

\* lines 55, 59: ds.map(normalize_img, num_parallel_calls=AUTOTUNE): one
\* element for each, handed out in the given order
MapDataset(ds, order) == [i \in DOMAIN ds |-> MapElem(ds[order[i]])]

\* .cache(): the same elements, kept in memory after the first pass
Cache(ds) == ds

\* the shuffle's random choice of a buffer slot for emission number step
\* (counted from 0) out of len buffered elements
Pick(draws, step, len) == (draws[(step % Len(draws)) + 1] % len) + 1

RemoveAt(q, i) == SubSeq(q, 1, i - 1) \o SubSeq(q, i + 1, Len(q))

\* one emission of the shuffle: the chosen slot is emitted and refilled with
\* the next input element, or removed when the input is exhausted
ShuffleEmit(buf, rest, i) ==
    [item |-> buf[i],
     buf |-> IF rest # <<>> THEN [buf EXCEPT ![i] = Head(rest)]
             ELSE RemoveAt(buf, i),
     rest |-> IF rest # <<>> THEN Tail(rest) ELSE <<>>]

\* the shuffle's loop state: elements emitted, buffer, input not yet read,
\* number of emissions
ShuffleStart(ds, size) ==
    LET k == Min(size, Len(ds))
    IN  [out |-> <<>>, buf |-> SubSeq(ds, 1, k),
         rest |-> SubSeq(ds, k + 1, Len(ds)), step |-> 0]

\* one pass of the shuffle's loop
ShuffleStep(st, draws) ==
    IF st.buf = <<>> THEN st
    ELSE LET r == ShuffleEmit(st.buf, st.rest, Pick(draws, st.step, Len(st.buf)))
         IN  [out |-> Append(st.out, r.item), buf |-> r.buf, rest |-> r.rest,
              step |-> st.step + 1]

\* k passes of the loop: the first half of them, then (from the state they
\* reached) the others.  The test on half.step always holds; it makes the
\* first half be evaluated before the second is entered.
RECURSIVE ShuffleSteps(_, _, _)
ShuffleSteps(st, draws, k) ==
    IF k = 0 THEN st
    ELSE IF k = 1 THEN ShuffleStep(st, draws)
    ELSE LET half == ShuffleSteps(st, draws, k \div 2)
         IN  IF half.step >= st.step
             THEN ShuffleSteps(half, draws, k - (k \div 2))
             ELSE half

\* line 56: .shuffle(1000): fill the buffer, then emit random slots until
\* every element has been emitted
Shuffle(ds, size, draws) ==
    ShuffleSteps(ShuffleStart(ds, size), draws, Len(ds)).out

\* a slip: drop_remainder=True, the short last batch is not delivered
RECURSIVE Batch_DropRemainder(_, _)
Batch_DropRemainder(ds, size) ==
    IF Len(ds) < size THEN <<>>
    ELSE <<SubSeq(ds, 1, size)>>
         \o Batch_DropRemainder(SubSeq(ds, size + 1, Len(ds)), size)

\* lines 56, 60: .batch(BATCH_SIZE): groups of size consecutive elements,
\* the last one with what is left
RECURSIVE Batch(_, _)
Batch(ds, size) ==
    IF ds = <<>> THEN <<>>
    ELSE LET k == Min(size, Len(ds))
         IN  <<SubSeq(ds, 1, k)>> \o Batch(SubSeq(ds, k + 1, Len(ds)), size)

\* .prefetch(tf.data.AUTOTUNE): the same elements, produced ahead of use
Prefetch(ds) == ds

\* line 56, from the cached elements on
TrainPipelineFrom(cached, draws) ==
    Prefetch(Batch(Shuffle(cached, SHUFFLE_BUFFER, draws), BATCH_SIZE))

\* lines 55-56
TrainPipeline(n, order, draws) ==
    TrainPipelineFrom(Cache(MapDataset(Source(n), order)), draws)

\* lines 59-60
TestPipeline(n, order) ==
    Prefetch(Cache(Batch(MapDataset(Source(n), order), BATCH_SIZE)))

\* the numbers emission number step (counted from 0) may draw, and the
\* sequences of draws: every order of StreamLen + 1 buffered elements is
\* the result of one of them
Draws(step) == 0..(StreamLen - step)

Streams ==
    {s \in [1..StreamLen -> 0..StreamLen] :
        \A k \in 1..StreamLen : s[k] \in Draws(k - 1)}

\* the hand-out orders the pipelines are run with

HandOutOrders(n) ==
    {o \in {Late(n, p[1], p[2]) :
                p \in {q \in (1..MaxLate) \X (0..MaxDelay) : q[1] + q[2] <= n}} :
        IsHandOutOrder(o, n, MapWorkers)}

BatchIdle ==
    /\ b_pc = "idle"
    /\ b_kind = "none"
    /\ b_n = 0
    /\ b_order = <<>>
    /\ b_draws = <<0>>
    /\ b_batches = <<>>

PipeIdle ==
    /\ p_n = 0
    /\ p_draws = <<0>>
    /\ p_next = 0
    /\ p_inflight = <<>>
    /\ p_cache = <<>>
    /\ p_shuf = <<>>
    /\ p_step = 0
    /\ p_pull = "idle"
    /\ p_batch = <<>>
    /\ p_prefetch = <<>>
    /\ p_updating = {}
    /\ p_consumed = <<>>
    /\ p_applied = 0

(***************************************************************************)
(* The environment of fit: the metric values each epoch measures.  A run   *)
(* follows one schedule [K, gap, tail]: during epochs 1..K the validation  *)
(* loss drops by one unit every gap-th epoch (and repeats its value in     *)
(* between); from epoch K+1 on it stays at the last level ("tie"), one     *)
(* unit above it ("worse"), or is NaN ("nan").                             *)
(***************************************************************************)
Tails == {"tie", "worse", "nan"}
Schedules == [K : 0..MAX_EPOCHS, gap : 1..MaxGap, tail : Tails]

Level(s, e) == StartLoss - ((e - 1) \div s.gap)

ValLoss(s, e) ==
    IF e <= s.K THEN Num(Level(s, e))
    ELSE LET last == IF s.K = 0 THEN StartLoss ELSE Level(s, s.K)
         IN  CASE s.tail = "tie" -> Num(last)
               [] s.tail = "worse" -> Num(last + 1)
               [] OTHER -> NaN

\* logs of epoch e (1-based): the training metrics and the evaluation on ds_test
EpochLogs(s, e) ==
    [loss |-> Num(StartLoss + MAX_EPOCHS - e),
     accuracy |-> Num(e),
     val_loss |-> ValLoss(s, e),
     val_accuracy |-> IF ValLoss(s, e).k = "nan" THEN Num(0) ELSE Num(e)]

(***************************************************************************)
(* tf.keras.callbacks.EarlyStopping(patience=5, restore_best_weights=True) *)
(* monitor = "val_loss", min_delta = 0, baseline = None, mode "auto" ->    *)
(* np.less.  best_weights is <<>> for None, <<w>> otherwise.               *)
(***************************************************************************)
NoBest == [k |-> "none", v |-> 0]

\* EarlyStopping._is_improvement (min_delta = 0); Keras 3 starts from best = None
IsImprovement(current, best) ==
    IF best.k = "none" THEN TRUE ELSE NpLess(current, best)

\* a slip: one more epoch of patience than configured
PatienceExceeded_OffByOne(wait, ep) == wait > PATIENCE /\ ep > 0

\* "if self.wait >= self.patience and epoch > 0"
PatienceExceeded(wait, ep) == wait >= PATIENCE /\ ep > 0

\* EarlyStopping.on_train_begin
ES_on_train_begin(fw) ==
    [wait |-> 0, stopped_epoch |-> 0,
     best |-> IF fw = "keras3" THEN NoBest ELSE Inf,
     best_weights |-> <<>>, best_epoch |-> 0]

\* EarlyStopping.on_epoch_end(ep, logs) with the model's weights w; ep is 0-based.
\* Returns the callback's fields, model.stop_training and the model's weights.
ES_on_epoch_end(fw, s, ep, current, w, stop) ==
    LET s1 == IF s.best_weights = <<>>
              THEN [s EXCEPT !.best_weights = <<w>>,
                             !.best_epoch = IF fw = "keras3" THEN ep ELSE @]
              ELSE s
        s2 == [s1 EXCEPT !.wait = @ + 1]
    IN  IF IsImprovement(current, s2.best)
        THEN [es |-> [s2 EXCEPT !.best = current, !.best_epoch = ep,
                                !.best_weights = <<w>>, !.wait = 0],
              stop |-> stop, weights |-> w]
        ELSE IF PatienceExceeded(s2.wait, ep)
        THEN [es |-> [s2 EXCEPT !.stopped_epoch = ep],
              stop |-> TRUE,
              weights |-> IF fw = "tf2" /\ s2.best_weights # <<>>
                          THEN s2.best_weights[1] ELSE w]
        ELSE [es |-> s2, stop |-> stop, weights |-> w]

\* EarlyStopping.on_train_end: Keras 3 restores the best weights here
ES_on_train_end(fw, s, w) ==
    IF fw = "keras3" /\ s.best_weights # <<>> THEN s.best_weights[1] ELSE w

(***************************************************************************)
(* tf.keras.callbacks.History                                              *)
(***************************************************************************)
Metrics == {"accuracy", "loss", "val_accuracy", "val_loss"}

EmptyHistory == [m \in Metrics |-> <<>>]

\* a slip: each list keeps only the latest epoch's value
History_on_epoch_end_Overwrite(h, logs) == [m \in Metrics |-> <<logs[m]>>]

\* History.on_epoch_end: history.setdefault(k, []).append(v) for every log
History_on_epoch_end(h, logs) == [m \in Metrics |-> Append(h[m], logs[m])]

(***************************************************************************)
(* main()                                                                  *)
(***************************************************************************)
IdleES == ES_on_train_begin("tf2")

otherThanMain == <<normVars, batchVars, pipeVars>>

Init ==
    /\ pc = "load"
    /\ framework \in {"tf2", "keras3"}
    /\ sched \in Schedules
    /\ epoch = 0
    /\ weights = 0
    /\ stop_training = FALSE
    /\ es = IdleES
    /\ history = EmptyHistory
    /\ files = {}
    /\ error = "none"
    /\ NormIdle
    /\ BatchIdle
    /\ PipeIdle

\* line 124: ds_train, ds_test = load_datasets()
LoadDatasets ==
    /\ pc = "load"
    /\ pc' = "build"
    /\ UNCHANGED <<framework, sched, epoch, weights, stop_training, es,
                   history, files, error>>
    /\ UNCHANGED otherThanMain

\* line 124 when tfds.load cannot fetch the dataset: the exception ends main()
LoadDatasetsFails ==
    /\ pc = "load"
    /\ pc' = "failed"
    /\ error' = "DatasetError"
    /\ UNCHANGED <<framework, sched, epoch, weights, stop_training, es,
                   history, files>>
    /\ UNCHANGED otherThanMain

\* line 125: model = build_model(); freshly initialised weights
BuildModel ==
    /\ pc = "build"
    /\ pc' = "fit_begin"
    /\ weights' = 0
    /\ UNCHANGED <<framework, sched, epoch, stop_training, es, history,
                   files, error>>
    /\ UNCHANGED otherThanMain

\* lines 128-136: fit starts; on_train_begin of both callbacks
FitBegin ==
    /\ pc = "fit_begin"
    /\ pc' = "fit"
    /\ epoch' = 0
    /\ stop_training' = FALSE
    /\ es' = ES_on_train_begin(framework)
    /\ history' = EmptyHistory
    /\ UNCHANGED <<framework, sched, weights, files, error>>
    /\ UNCHANGED otherThanMain

\* the epoch loop of fit: "for epoch in range(0, epochs)" with
\* "if self.stop_training: break" at the end of each pass
LoopContinues_NoEpochLimit(ep, stop) == ~stop

LoopContinues(ep, stop) == ep < MAX_EPOCHS /\ ~stop

\* one pass of the epoch loop: train on ds_train (new weights), evaluate on
\* ds_test, then on_epoch_end of History and of EarlyStopping
FitEpoch ==
    /\ pc = "fit"
    /\ LoopContinues(epoch, stop_training)
    /\ LET logs == EpochLogs(sched, epoch + 1)
           trained == epoch + 1
           r == ES_on_epoch_end(framework, es, epoch, logs.val_loss, trained,
                                stop_training)
       IN  /\ history' = History_on_epoch_end(history, logs)
           /\ es' = r.es
           /\ stop_training' = r.stop
           /\ weights' = r.weights
    /\ epoch' = epoch + 1
    /\ UNCHANGED <<pc, framework, sched, files, error>>
    /\ UNCHANGED otherThanMain

\* the loop has ended: on_train_end, fit returns the History
FitEnd ==
    /\ pc = "fit"
    /\ ~LoopContinues(epoch, stop_training)
    /\ weights' = ES_on_train_end(framework, es, weights)
    /\ pc' = "plot"
    /\ UNCHANGED <<framework, sched, epoch, stop_training, es, history,
                   files, error>>
    /\ UNCHANGED otherThanMain

\* line 139: plot_metrics(history) reads the four lists and shows the figure
PlotMetrics ==
    /\ pc = "plot"
    /\ \A m \in Metrics : m \in DOMAIN history
    /\ pc' = "persist"
    /\ UNCHANGED <<framework, sched, epoch, weights, stop_training, es,
                   history, files, error>>
    /\ UNCHANGED otherThanMain

\* line 142: "if not os.path.exists(MODEL_DIR)".  The module never binds
\* MODEL_DIR (line 32 binds MODEL_H5_PATH), so evaluating the condition raises
\* NameError and main() ends there: lines 143-150 (os.makedirs, the two
\* model.save calls, model.export, print) are never executed.
CheckModelDir ==
    /\ pc = "persist"
    /\ pc' = "failed"
    /\ error' = "NameError"
    /\ UNCHANGED <<framework, sched, epoch, weights, stop_training, es,
                   history, files>>
    /\ UNCHANGED otherThanMain

\* lines 146-148, after the directory check: the three persistence calls.
\* They are not part of Next: CheckModelDir always raises before them.
SaveKeras ==
    /\ pc = "save_keras"
    /\ files' = files \cup {"CNN1_saved_model.keras"}
    /\ pc' = "save_h5"
    /\ UNCHANGED <<framework, sched, epoch, weights, stop_training, es,
                   history, error>>
    /\ UNCHANGED otherThanMain

SaveH5 ==
    /\ pc = "save_h5"
    /\ files' = files \cup {"CNN1_mnist_model.h5"}
    /\ pc' = "export"
    /\ UNCHANGED <<framework, sched, epoch, weights, stop_training, es,
                   history, error>>
    /\ UNCHANGED otherThanMain

Next ==
    \/ LoadDatasets
    \/ LoadDatasetsFails
    \/ BuildModel
    \/ FitBegin
    \/ FitEpoch
    \/ FitEnd
    \/ PlotMetrics
    \/ CheckModelDir

Spec == Init /\ [][Next]_vars

(***************************************************************************)
(* Properties of main()                                                    *)
(***************************************************************************)
val_loss == history["val_loss"]

\* fit has returned (main() is at or past plot_metrics)
AfterFit == pc \in {"plot", "persist"} \/ (pc = "failed" /\ error = "NameError")

\* main() has ended
Ended == pc = "failed" \/ pc = "done"

\* the lowest loss among h[1..j] as np.less orders them, +inf for j = 0
RECURSIVE MinLoss(_, _)
MinLoss(h, j) ==
    IF j = 0 THEN Inf
    ELSE LET b == MinLoss(h, j - 1) IN IF NpLess(h[j], b) THEN h[j] ELSE b

\* the validation loss of epoch j is not below every earlier one
NonImproving(h, j) == ~NpLess(h[j], MinLoss(h, j - 1))

\* the last epoch among 1..n whose loss was below every earlier one, 1 if none
RECURSIVE LastImproving(_, _)
LastImproving(h, n) ==
    IF n <= 1 THEN 1
    ELSE IF NonImproving(h, n) THEN LastImproving(h, n - 1) ELSE n

\* the loss is a number at epoch 1 and strictly lower in each of epochs 2..K
ImprovesThrough(h, K) ==
    /\ h[1].k = "num"
    /\ \A j \in 2..K : NpLess(h[j], h[j - 1])

\* epochs K+1..K+PATIENCE never go below the value of epoch K
PlateauAfter(h, K) == \A j \in (K + 1)..(K + PATIENCE) : ~NpLess(h[j], h[K])

ImprovingRuns == 1..(MAX_EPOCHS - PATIENCE)

\* C1: whenever the validation loss strictly improved in each of epochs 1..K
\* and then stayed at or above the epoch-K value for epochs K+1..K+5, fit has
\* run exactly K+5 epochs (epoch K+6 is never run), training is stopped, and
\* once fit has returned the model holds the weights produced by epoch K.
C1_StopsAfterPlateau ==
    \A K \in ImprovingRuns :
        ( /\ Len(val_loss) >= K + PATIENCE
          /\ ImprovesThrough(val_loss, K)
          /\ PlateauAfter(val_loss, K) )
        => /\ epoch = K + PATIENCE
           /\ stop_training
           /\ AfterFit => weights = K

\* C1 witness: fit returned after an improving run of K >= 2 epochs and a
\* plateau of five, with the weights of epoch K restored.
C1_Witness ==
    /\ pc = "plot"
    /\ \E K \in ImprovingRuns :
        /\ K >= 2
        /\ epoch = K + PATIENCE
        /\ ImprovesThrough(val_loss, K)
        /\ PlateauAfter(val_loss, K)
        /\ weights = K

MaxEpochsReached == epoch = MAX_EPOCHS

\* the last PATIENCE epochs each failed to improve, training was stopped and
\* the model holds the weights of the best epoch
EarlyStoppedRestored ==
    /\ stop_training
    /\ epoch >= PATIENCE
    /\ \A j \in (epoch - PATIENCE + 1)..epoch : NonImproving(val_loss, j)
    /\ weights = LastImproving(val_loss, epoch)

\* C2 (amended): the fit loop never runs more than MAX_EPOCHS epochs and is
\* never stuck; when fit has returned, no exception has been raised by it and
\* at least one of "max epochs reached" and "early-stopped with the best
\* weights restored" holds.
C2_TerminatesNormally ==
    /\ epoch <= MAX_EPOCHS
    /\ pc = "fit" => (ENABLED FitEpoch \/ ENABLED FitEnd)
    /\ pc \in {"plot", "persist"} => error = "none"
    /\ AfterFit => (MaxEpochsReached \/ EarlyStoppedRestored)

\* C2 witness: fit returned early-stopped before the epoch limit.
C2_Witness ==
    /\ pc = "plot"
    /\ EarlyStoppedRestored
    /\ ~MaxEpochsReached

\* C2 as stated: when fit has returned, exactly one of the two terminal
\* states holds.
C2_ExactlyOneTerminalState ==
    AfterFit => /\ MaxEpochsReached \/ EarlyStoppedRestored
                /\ ~(MaxEpochsReached /\ EarlyStoppedRestored)

ModelFiles == {"CNN1_saved_model.keras", "CNN1_mnist_model.h5"}

\* C3 as stated: when main() has ended and loading, training and plotting
\* completed, at least one of the two model files has been written.
C3_ModelPersisted ==
    (Ended /\ error # "DatasetError") => files \cap ModelFiles # {}

IsPrefix(a, b) == Len(a) <= Len(b) /\ SubSeq(b, 1, Len(a)) = a

\* C6: each of the four lists of the History has one entry per completed
\* epoch, also after an early stop restored older weights, and every step
\* only appends to them.
C6_HistoryAppendOnly ==
    /\ [](\A m \in Metrics : Len(history[m]) = epoch)
    /\ [][\A m \in Metrics : IsPrefix(history[m], history'[m])]_vars

\* C6 witness: plot_metrics is about to read a History of an early-stopped
\* run whose weights were rolled back, with one entry per epoch run.
C6_Witness ==
    /\ pc = "plot"
    /\ stop_training
    /\ weights < epoch
    /\ epoch > PATIENCE
    /\ \A m \in Metrics : Len(history[m]) = epoch

(***************************************************************************)
(* SpecNorm: normalize_img applied to one sample                           *)
(***************************************************************************)
MainIdle ==
    /\ pc = "idle"
    /\ framework = "tf2"
    /\ sched = [K |-> 0, gap |-> 1, tail |-> "tie"]
    /\ epoch = 0
    /\ weights = 0
    /\ stop_training = FALSE
    /\ es = IdleES
    /\ history = EmptyHistory
    /\ files = {}
    /\ error = "none"

InitNorm ==
    /\ n_pc = "call"
    /\ \E sample \in Samples :
        /\ n_image = sample[1]
        /\ n_label = sample[2]
    /\ n_round = 0
    /\ n_out = NoOutput
    /\ MainIdle
    /\ BatchIdle
    /\ PipeIdle

\* ds.map(normalize_img) calls the function on the sample; the additions of
\* its reduce_mean round one way or another
NormalizeImg ==
    /\ n_pc = "call"
    /\ \E round \in Roundings(MapRuns(n_image.runs, ToUnit)) :
        /\ n_round' = round
        /\ n_out' = normalize_img(n_image, n_label, round)
    /\ n_pc' = "done"
    /\ UNCHANGED <<n_image, n_label, mainVars, batchVars, pipeVars>>

NextNorm == NormalizeImg

SpecNorm == InitNorm /\ [][NextNorm]_vars

Returned == n_pc = "done" /\ n_out.err = "none"

IsConstantImage(image) == Len(image.runs) = 1

\* C4 as stated: the returned image has the shape INPUT_SHAPE, that is
\* exactly one trailing dimension of size 1 after the two spatial ones.
C4_OutputShapeIsInputShape ==
    Returned => n_out.shape = INPUT_SHAPE

RECURSIVE SumRuns(_)
SumRuns(runs) ==
    IF runs = <<>> THEN 0 ELSE Head(runs).n * Head(runs).v + SumRuns(Tail(runs))

\* C7: the returned label vector has length NUM_CLASSES, holds 1 at the
\* index equal to the label and 0 at every other index, and sums to 1.
C7_OneHotLabel ==
    Returned =>
        /\ Len(n_out.label) = NUM_CLASSES
        /\ \A i \in 0..(NUM_CLASSES - 1) :
               n_out.label[i + 1] = IF i = n_label THEN 1 ELSE 0
        /\ SumRuns([i \in 1..Len(n_out.label) |->
                        [v |-> n_out.label[i], n |-> 1]]) = 1

\* C7 witness: label 9, the upper end of the range, was encoded.
C7_Witness ==
    /\ Returned
    /\ n_label = NUM_CLASSES - 1
    /\ n_out.label[NUM_CLASSES] = 1

\* the moments line 38 computed, the standard deviation of line 39 and the
\* divisor of line 40 in the call that returned
InputMoments == Moments(MapRuns(n_image.runs, ToUnit), n_round)
InputStd == Sqrt(InputMoments.var)
DivisorUsed == Divisor(InputStd)

GuardHolds ==
    /\ DivisorUsed > 0
    /\ \A i \in DOMAIN n_out.runs : n_out.runs[i].v.k = "num"

\* C8 as stated: the divisor std + 1e-6 is strictly positive and every
\* returned pixel is a finite number; a constant image is returned as the
\* all-zero image.
C8_EpsilonGuard ==
    Returned =>
        /\ GuardHolds
        /\ IsConstantImage(n_image) =>
               \A i \in DOMAIN n_out.runs : n_out.runs[i].v = Num(0)

\* C8 (amended): the divisor std + 1e-6 is strictly positive and every
\* returned pixel is a finite number; a constant image is returned as a
\* constant image of magnitude below 1, which is the all-zero image when
\* the computed mean equals the pixel value, as it does for all zeros and
\* for all 255.
C8_GuardKeepsConstantBelowOne ==
    Returned =>
        /\ GuardHolds
        /\ IsConstantImage(n_image) =>
               LET p == n_image.runs[1].v
                   out == n_out.runs[1].v
               IN  /\ Len(n_out.runs) = 1
                   /\ out.v < Milli /\ -out.v < Milli
                   /\ InputMoments.mean = ToUnit(p) => out = Num(0)
                   /\ p \in {0, PixelMax} => out = Num(0)

\* C8 witness: an all-255 image (standard deviation 0, divisor 1e-6) was
\* returned as zeros.
C8_Witness ==
    /\ Returned
    /\ n_image.runs = <<[v |-> PixelMax, n |-> Product(MNIST_SHAPE)]>>
    /\ InputStd = 0
    /\ DivisorUsed = EPS
    /\ n_out.runs = <<[v |-> Num(0), n |-> Product(MNIST_SHAPE)]>>

\* mean (thousandths) and variance (millionths) over all pixels of the
\* returned image
OutValues == [i \in DOMAIN n_out.runs |->
                 [v |-> n_out.runs[i].v.v, n |-> n_out.runs[i].n]]
OutMean == SumRuns(OutValues) \div Count(OutValues)
OutVariance ==
    LET SqDiff(v) == (v - OutMean) * (v - OutMean)
    IN  SumRuns(MapRuns(OutValues, SqDiff)) \div Count(OutValues)

Within(x, target, tol) == x - target <= tol /\ target - x <= tol

MeanIsZero == Within(OutMean, 0, MilliTol)
VarianceIsOne == Within(OutVariance, Milli * Milli, MilliTol * Milli)

\* an image with contrast: its standard deviation is at least 0.01
HasContrast == InputStd >= Scale \div 100

\* C9 as stated: for every image the returned image has mean 0 and
\* variance 1 within tolerance.
C9_ZeroMeanUnitVariance ==
    Returned => (MeanIsZero /\ VarianceIsOne)

\* C9 (amended): for an image whose standard deviation is at least 0.01 the
\* returned image has mean 0 and variance 1 within tolerance; a constant
\* image is returned as a constant image, whose variance is 0.
C9_StandardizedWhenContrast ==
    Returned =>
        /\ HasContrast => (MeanIsZero /\ VarianceIsOne)
        /\ IsConstantImage(n_image) => (~HasContrast /\ OutVariance = 0)

\* C9 witness: an image of one bright pixel on black was standardized to
\* mean 0 and variance 1.
C9_Witness ==
    /\ Returned
    /\ n_image = MkImage(0, PixelMax, 1)
    /\ HasContrast
    /\ MeanIsZero
    /\ VarianceIsOne
    /\ OutVariance # 0

(***************************************************************************)
(* SpecBatch: one pass over ds_train or ds_test                            *)
(***************************************************************************)
InitBatch ==
    /\ b_pc = "iterate"
    /\ b_n \in 1..MaxN
    /\ b_order \in HandOutOrders(b_n)
    /\ \/ b_kind = "train" /\ b_draws \in Streams
       \/ b_kind = "test" /\ b_draws = <<0>>
    /\ b_batches = <<>>
    /\ MainIdle
    /\ NormIdle
    /\ PipeIdle

IterateTrain ==
    /\ b_pc = "iterate"
    /\ b_kind = "train"
    /\ b_batches' = TrainPipeline(b_n, b_order, b_draws)
    /\ b_pc' = "done"
    /\ UNCHANGED <<b_kind, b_n, b_order, b_draws, mainVars, normVars, pipeVars>>

IterateTest ==
    /\ b_pc = "iterate"
    /\ b_kind = "test"
    /\ b_batches' = TestPipeline(b_n, b_order)
    /\ b_pc' = "done"
    /\ UNCHANGED <<b_kind, b_n, b_order, b_draws, mainVars, normVars, pipeVars>>

NextBatch == IterateTrain \/ IterateTest

SpecBatch == InitBatch /\ [][NextBatch]_vars

CeilDiv(a, b) == (a + b - 1) \div b

\* C5: a pass over a split of N >= 1 samples delivers ceil(N/128) batches,
\* all of 128 samples except the last, which has N mod 128 samples, or 128
\* when 128 divides N; this for the train and for the test pipeline.
C5_BatchCountAndSizes ==
    b_pc = "done" =>
        /\ Len(b_batches) = CeilDiv(b_n, BATCH_SIZE)
        /\ \A i \in 1..(Len(b_batches) - 1) : Len(b_batches[i]) = BATCH_SIZE
        /\ Len(b_batches[Len(b_batches)]) =
               IF b_n % BATCH_SIZE = 0 THEN BATCH_SIZE ELSE b_n % BATCH_SIZE

\* C5 witness: a shuffled train pass over 2 * 128 + 1 samples, handed out
\* of order by the map, delivered two full batches and a last batch of one
\* sample.
C5_Witness ==
    /\ b_pc = "done"
    /\ b_kind = "train"
    /\ b_n = 2 * BATCH_SIZE + 1
    /\ b_order # InOrder(b_n)
    /\ Len(b_batches) = 3
    /\ Len(b_batches[3]) = 1
    /\ Len(b_batches[1]) = BATCH_SIZE

(***************************************************************************)
(* SpecPipe: the first training epoch of fit over ds_train, as concurrent  *)
(* processes.  The map runs up to MapWorkers calls of normalize_img at     *)
(* once, which finish in any order; the prefetch thread waits for room in  *)
(* its buffer, then pulls one batch through batch, shuffle and cache, one  *)
(* element at a time, and appends it to the buffer; the training loop      *)
(* takes batches from the buffer and runs one train step at a time.  The   *)
(* splits are smaller than the shuffle buffer, which is therefore never    *)
(* full: the shuffle reads the whole split before it emits.  The split has  *)
(* two full batches and a last batch of one sample.                        *)
(***************************************************************************)
PipeSize == 2 * BATCH_SIZE + 1

InitPipe ==
    /\ p_n = PipeSize
    /\ p_draws = <<>>
    /\ p_next = 0
    /\ p_inflight = <<>>
    /\ p_cache = <<>>
    /\ p_shuf = <<>>
    /\ p_step = 0
    /\ p_pull = "wait"
    /\ p_batch = <<>>
    /\ p_prefetch = <<>>
    /\ p_updating = {}
    /\ p_consumed = <<>>
    /\ p_applied = 0
    /\ MainIdle
    /\ NormIdle
    /\ BatchIdle

\* the map starts a call of normalize_img on the next sample of the source
MapDispatch ==
    /\ p_next < p_n
    /\ Len(p_inflight) < MapWorkers
    /\ p_inflight' = Append(p_inflight,
                            [elem |-> Source(p_n)[p_next + 1], done |-> FALSE,
                             late |-> 0])
    /\ p_next' = p_next + 1
    /\ UNCHANGED <<p_n, p_draws, p_cache, p_shuf, p_step, p_pull, p_batch,
                   p_prefetch, p_updating, p_consumed, p_applied>>
    /\ UNCHANGED <<mainVars, normVars, batchVars>>

\* any running call finishes
MapComplete ==
    /\ \E i \in DOMAIN p_inflight :
        /\ ~p_inflight[i].done
        /\ p_inflight' = [p_inflight EXCEPT
                             ![i].elem = MapElem(@), ![i].done = TRUE]
    /\ UNCHANGED <<p_n, p_draws, p_next, p_cache, p_shuf, p_step, p_pull,
                   p_batch, p_prefetch, p_updating, p_consumed, p_applied>>
    /\ UNCHANGED <<mainVars, normVars, batchVars>>

\* the map is not deterministic (line 49): it hands out the result of any
\* call that has finished
MapOutputSlots(q) == {i \in DOMAIN q : q[i].done}

\* the calls that run long in this specification: those on the first
\* MaxLate samples, each overtaken by at most MaxDelay later results
MayOvertake(q, i) ==
    \A j \in 1..(i - 1) : q[j].elem.id <= MaxLate /\ q[j].late < MaxDelay

MapExhausted == p_next = p_n /\ p_inflight = <<>>

\* the shuffle, asked for an element, first fills its buffer with the map's
\* next output (which the cache records on the way)
ShuffleFill ==
    /\ p_pull = "pull"
    /\ Len(p_shuf) < SHUFFLE_BUFFER
    /\ \E i \in MapOutputSlots(p_inflight) :
        /\ MayOvertake(p_inflight, i)
        /\ p_cache' = Append(p_cache, p_inflight[i].elem)
        /\ p_shuf' = Append(p_shuf, p_inflight[i].elem)
        /\ p_inflight' =
               RemoveAt([j \in DOMAIN p_inflight |->
                            IF j < i THEN [p_inflight[j] EXCEPT !.late = @ + 1]
                            ELSE p_inflight[j]], i)
    /\ UNCHANGED <<p_n, p_draws, p_next, p_step, p_pull, p_batch, p_prefetch,
                   p_updating, p_consumed, p_applied>>
    /\ UNCHANGED <<mainVars, normVars, batchVars>>

\* the prefetch thread finds room in its buffer and starts on a batch
PrefetchBegin ==
    /\ p_pull = "wait"
    /\ Len(p_prefetch) < PrefetchDepth
    /\ p_pull' = "pull"
    /\ UNCHANGED <<p_n, p_draws, p_next, p_inflight, p_cache, p_shuf, p_step,
                   p_batch, p_prefetch, p_updating, p_consumed, p_applied>>
    /\ UNCHANGED <<mainVars, normVars, batchVars>>

\* batch takes one more element from the shuffle, which draws a number and
\* emits that slot
BatchPull ==
    /\ p_pull = "pull"
    /\ Len(p_batch) < BATCH_SIZE
    /\ MapExhausted
    /\ p_shuf # <<>>
    /\ \E d \in (IF p_step < StreamLen THEN Draws(p_step) ELSE {0}) :
        LET draws == IF p_step < StreamLen THEN Append(p_draws, d) ELSE p_draws
            r == ShuffleEmit(p_shuf, <<>>, Pick(draws, p_step, Len(p_shuf)))
        IN  /\ p_draws' = draws
            /\ p_batch' = Append(p_batch, r.item)
            /\ p_shuf' = r.buf
    /\ p_step' = p_step + 1
    /\ UNCHANGED <<p_n, p_next, p_inflight, p_cache, p_pull,
                   p_prefetch, p_updating, p_consumed, p_applied>>
    /\ UNCHANGED <<mainVars, normVars, batchVars>>

\* the batch is full, or the shuffle is exhausted and the batch is not
\* empty: the prefetch thread appends it to its buffer
BatchDeliver ==
    /\ p_pull = "pull"
    /\ \/ Len(p_batch) = BATCH_SIZE
       \/ MapExhausted /\ p_shuf = <<>> /\ p_batch # <<>>
    /\ p_prefetch' = Append(p_prefetch, p_batch)
    /\ p_batch' = <<>>
    /\ p_pull' = "wait"
    /\ UNCHANGED <<p_n, p_draws, p_next, p_inflight, p_cache, p_shuf, p_step,
                   p_updating, p_consumed, p_applied>>
    /\ UNCHANGED <<mainVars, normVars, batchVars>>

\* nothing is left to batch: the prefetch thread reports the end of the pass
PrefetchEnd ==
    /\ p_pull = "pull"
    /\ MapExhausted
    /\ p_shuf = <<>>
    /\ p_batch = <<>>
    /\ p_pull' = "end"
    /\ UNCHANGED <<p_n, p_draws, p_next, p_inflight, p_cache, p_shuf, p_step,
                   p_batch, p_prefetch, p_updating, p_consumed, p_applied>>
    /\ UNCHANGED <<mainVars, normVars, batchVars>>

\* a slip: the buffer hands out its newest batch
PrefetchOutputSlot_Newest(q) == Len(q)

\* the prefetch buffer hands out its oldest batch
PrefetchOutputSlot(q) == 1

\* the training loop calls the train function for one batch and waits for it
CanStartStep(updating) == updating = {}

\* the training loop takes the next batch and starts its gradient update
BeginStep ==
    /\ p_prefetch # <<>>
    /\ CanStartStep(p_updating)
    /\ LET i == PrefetchOutputSlot(p_prefetch)
       IN  /\ p_consumed' = Append(p_consumed, p_prefetch[i])
           /\ p_prefetch' = RemoveAt(p_prefetch, i)
    /\ p_updating' = p_updating \cup {Len(p_consumed) + 1}
    /\ UNCHANGED <<p_n, p_draws, p_next, p_inflight, p_cache, p_shuf, p_step,
                   p_pull, p_batch, p_applied>>
    /\ UNCHANGED <<mainVars, normVars, batchVars>>

\* the gradient update has been applied to the model parameters
EndStep ==
    /\ \E b \in p_updating : p_updating' = p_updating \ {b}
    /\ p_applied' = p_applied + 1
    /\ UNCHANGED <<p_n, p_draws, p_next, p_inflight, p_cache, p_shuf, p_step,
                   p_pull, p_batch, p_prefetch, p_consumed>>
    /\ UNCHANGED <<mainVars, normVars, batchVars>>

NextPipe ==
    \/ MapDispatch
    \/ MapComplete
    \/ ShuffleFill
    \/ PrefetchBegin
    \/ BatchPull
    \/ BatchDeliver
    \/ PrefetchEnd
    \/ BeginStep
    \/ EndStep

SpecPipe == InitPipe /\ [][NextPipe]_vars

EpochDone ==
    /\ p_pull = "end"
    /\ p_prefetch = <<>>
    /\ p_updating = {}

\* at most one gradient update runs at any moment, it is the update of the
\* batch taken last, and every earlier batch's update has completed
UpdatesSequential ==
    /\ Cardinality(p_updating) <= 1
    /\ p_updating \subseteq {Len(p_consumed)}
    /\ p_applied = Len(p_consumed) - Cardinality(p_updating)

RECURSIVE Flatten(_)
Flatten(batches) ==
    IF batches = <<>> THEN <<>> ELSE Head(batches) \o Flatten(Tail(batches))

\* C10 as stated: the batches the training loop has taken in the epoch are
\* the batches of the pipeline run with one worker and no prefetch under
\* the same shuffle choices; and the gradient updates are sequential.
C10_OrderKeptUpdatesSequential ==
    /\ EpochDone => p_consumed = TrainPipeline(p_n, InOrder(p_n), p_draws)
    /\ UpdatesSequential

\* C10 (amended): the batches the training loop has taken in the epoch are
\* the batches that shuffle and batch form, with no prefetch and under the
\* same shuffle choices, from the samples in the order the map handed them
\* out, and every sample has been taken exactly once; and the gradient
\* updates are sequential.
C10_PrefetchKeepsOrderUpdatesSequential ==
    /\ EpochDone =>
           /\ p_consumed = TrainPipelineFrom(p_cache, p_draws)
           /\ Len(Flatten(p_consumed)) = p_n
           /\ {e.id : e \in {Flatten(p_consumed)[i] : i \in 1..p_n}} = 1..p_n
    /\ UpdatesSequential

\* C10 witness: the map handed its results out of order, and the epoch is
\* over with all three batches taken and every update applied.
C10_Witness ==
    /\ EpochDone
    /\ p_cache # MapDataset(Source(p_n), InOrder(p_n))
    /\ Len(p_consumed) = 3
    /\ p_applied = 3

====
